---- MODULE Spec2Model ----
(***************************************************************************)
(* Rule 2220005 scanner (src/app/app.py): obsolete KONV / DZAEHK / DZAEKO  *)
(* usage in ABAP source units.  Text is a sequence of one-character        *)
(* strings; offsets are 0-based as in Python, so the character at offset p *)
(* of text is text[p + 1].                                                 *)
(***************************************************************************)
EXTENDS Integers, Sequences, FiniteSets, TLC

VARIABLES
    endpoint,   \* the route the request in flight is posted to
    body,       \* the request body as posted: a Unit, or a list of Units
    unit,       \* /remediate: the handler's parsed Unit object, <<u>> once it ran
    response,   \* /remediate: the returned Unit, <<u>> once the handler ran
    units,      \* /remediate-array: the handler's parsed list, <<us>> once it ran
    results,    \* /remediate-array: the returned list, <<rs>> once the handler ran
    scans       \* how many times the posted unit has been through /remediate

vars == <<endpoint, body, unit, response, units, results, scans>>

(***************************************************************************)
(* Optional[T]: None is the empty tuple, a present value v is <<v>>.       *)
(***************************************************************************)
None == <<>>
Some(v) == <<v>>

Min(S) == CHOOSE x \in S : \A y \in S : x <= y
Max(S) == CHOOSE x \in S : \A y \in S : x >= y
\* the least element of S, d when S is empty
MinOr(S, d) == IF S = {} THEN d ELSE Min(S)
\* the greatest element of S, d when S is empty
MaxOr(S, d) == IF S = {} THEN d ELSE Max(S)

(***************************************************************************)
(* Characters                                                              *)
(***************************************************************************)
NL == "\n"

LowerLetters ==
    <<"a", "b", "c", "d", "e", "f", "g", "h", "i", "j", "k", "l", "m",
      "n", "o", "p", "q", "r", "s", "t", "u", "v", "w", "x", "y", "z">>
UpperLetters ==
    <<"A", "B", "C", "D", "E", "F", "G", "H", "I", "J", "K", "L", "M",
      "N", "O", "P", "Q", "R", "S", "T", "U", "V", "W", "X", "Y", "Z">>
Digits == {"0", "1", "2", "3", "4", "5", "6", "7", "8", "9"}

LowerSet == {LowerLetters[i] : i \in 1..26}
UpperSet == {UpperLetters[i] : i \in 1..26}
ToUpper == [c \in LowerSet |-> UpperLetters[CHOOSE i \in 1..26 : LowerLetters[i] = c]]
WordChars == LowerSet \cup UpperSet \cup Digits \cup {"_"}

\* str.upper() of one character; also how (?i) compares a character
Upper(c) == IF c \in LowerSet THEN ToUpper[c] ELSE c

\* \w
IsWord(c) == c \in WordChars

\* \s
IsSpace(c) == c \in {" ", "\t", "\n", "\r", "\f"}

\* a literal of the pattern found at offset pos, compared as (?i) does
LitAt(text, pos, lit) ==
    /\ pos >= 0
    /\ pos + Len(lit) <= Len(text)
    /\ \A i \in 1..Len(lit) : Upper(text[pos + i]) = lit[i]

\* \b at offset pos
WordBoundary(text, pos) ==
    (pos > 0 /\ IsWord(text[pos])) # (pos < Len(text) /\ IsWord(text[pos + 1]))

\* where a greedy \s* or \s+ starting at offset pos stops
SkipSpaces(text, pos) ==
    Min({p \in pos..Len(text) :
            /\ \A j \in pos..(p - 1) : IsSpace(text[j + 1])
            /\ (p = Len(text) \/ ~IsSpace(text[p + 1]))})

\* str.count("\n")
CountNL(text) == Cardinality({i \in 1..Len(text) : text[i] = NL})

\* text[a:b]
Slice(text, a, b) == SubSeq(text, a + 1, b)

(***************************************************************************)
(* Obsolete mappings                                                       *)
(***************************************************************************)
KONV == <<"K", "O", "N", "V">>
DZAEHK == <<"D", "Z", "A", "E", "H", "K">>
DZAEKO == <<"D", "Z", "A", "E", "K", "O">>
PRCD_ELEMENTS == "PRCD_ELEMENTS"
VFPRC_COND_COUNT == "VFPRC_COND_COUNT"
VFPRC_COND_COUNT_HEAD == "VFPRC_COND_COUNT_HEAD"

\* OBSOLETE_TABLE_MAP.get(table, "")
OBSOLETE_TABLE_MAP(table) ==
    IF table = KONV THEN PRCD_ELEMENTS ELSE ""

\* OBSOLETE_TYPE_MAP.get(dtype, "")
OBSOLETE_TYPE_MAP(dtype) ==
    IF dtype = KONV THEN PRCD_ELEMENTS
    ELSE IF dtype = DZAEHK THEN VFPRC_COND_COUNT
    ELSE IF dtype = DZAEKO THEN VFPRC_COND_COUNT_HEAD
    ELSE ""

(***************************************************************************)
(* SQL_KONV_RE                                                             *)
(***************************************************************************)
kwSELECT == <<"S", "E", "L", "E", "C", "T">>
kwFROM == <<"F", "R", "O", "M">>
kwINSERT == <<"I", "N", "S", "E", "R", "T">>
kwINTO == <<"I", "N", "T", "O">>
kwUPDATE == <<"U", "P", "D", "A", "T", "E">>
kwDELETE == <<"D", "E", "L", "E", "T", "E">>

\* [\s\S]{0,1000}?
LOOKAHEAD == 1000

\* The offsets at which group 1 (the DML start) can end when it starts at s.
\* The lazy [\s\S]+? of SELECT...FROM tries them in ascending order.
DmlStartEnds(text, s) ==
    IF LitAt(text, s, kwSELECT)
    THEN {p + 4 : p \in {p \in (s + 7)..(Len(text) - 4) : LitAt(text, p, kwFROM)}}
    ELSE IF LitAt(text, s, kwINSERT)
    THEN LET j == SkipSpaces(text, s + 6)
         IN  IF j > s + 6 /\ LitAt(text, j, kwINTO) THEN {j + 4} ELSE {}
    ELSE IF LitAt(text, s, kwUPDATE)
    THEN {s + 6}
    ELSE IF LitAt(text, s, kwDELETE)
    THEN LET j == SkipSpaces(text, s + 6)
         IN  IF j > s + 6 /\ LitAt(text, j, kwFROM) THEN {j + 4} ELSE {}
    ELSE {}

\* fault variant of KonvWordAt: the pattern without \b and (?!\w)
KonvWordAt_unbounded(text, q) == LitAt(text, q, KONV)

\* \b(?P<table>KONV)\b(?!\w) at offset q
KonvWordAt(text, q) ==
    /\ WordBoundary(text, q)
    /\ LitAt(text, q, KONV)
    /\ WordBoundary(text, q + 4)
    /\ ~(q + 4 < Len(text) /\ IsWord(text[q + 5]))

\* The ends of KONV reachable by the lazy lookahead from the group end g.
KonvEnds(text, g) ==
    {q + 4 : q \in {q \in g..Min({g + LOOKAHEAD, Len(text) - 4}) : KonvWordAt(text, q)}}

\* The end of the match of SQL_KONV_RE that starts at offset s, -1 if none.
\* Both quantifiers are lazy, so the first success of the backtracking is the
\* earliest FROM that has a KONV in reach and the earliest KONV after it:
\* the least end over all group ends.
SqlMatchAt(text, s) ==
    MinOr(UNION {KonvEnds(text, g) : g \in DmlStartEnds(text, s)}, -1)

\* re's search from offset pos: the leftmost offset with a match, -1 if none
SqlSearch(text, pos) ==
    MinOr({s \in pos..Len(text) : SqlMatchAt(text, s) # -1}, -1)

\* the match object of a match of SQL_KONV_RE over [s, e)
SqlMatch(text, s, e) ==
    [start |-> s, end |-> e, group |-> Slice(text, e - 4, e)]

\* SQL_KONV_RE.finditer(text), resumed at offset pos: the matches, in order;
\* each search resumes at the end of the match before.
RECURSIVE SqlFinditer(_, _)
SqlFrom(text, s) ==
    IF s = -1 THEN <<>>
    ELSE <<SqlMatch(text, s, SqlMatchAt(text, s))>>
            \o SqlFinditer(text, SqlMatchAt(text, s))

SqlFinditer(text, pos) == SqlFrom(text, SqlSearch(text, pos))

(***************************************************************************)
(* DECL_KONV_RE                                                            *)
(***************************************************************************)
kwDATA == <<"D", "A", "T", "A">>
kwTYPES == <<"T", "Y", "P", "E", "S">>
kwFIELD_SYMBOLS == <<"F", "I", "E", "L", "D", "-", "S", "Y", "M", "B", "O", "L", "S">>
kwCONSTANTS == <<"C", "O", "N", "S", "T", "A", "N", "T", "S">>
kwTYPE == <<"T", "Y", "P", "E">>
kwLIKE == <<"L", "I", "K", "E">>
kwTABLE == <<"T", "A", "B", "L", "E">>
kwOF == <<"O", "F">>

\* (DATA|TYPES|FIELD-SYMBOLS|CONSTANTS) at offset s: where it ends, -1 if none
DeclKeywordEnd(text, s) ==
    IF LitAt(text, s, kwDATA) THEN s + 4
    ELSE IF LitAt(text, s, kwTYPES) THEN s + 5
    ELSE IF LitAt(text, s, kwFIELD_SYMBOLS) THEN s + 13
    ELSE IF LitAt(text, s, kwCONSTANTS) THEN s + 9
    ELSE -1

\* (?P<dtype>KONV|DZAEHK|DZAEKO)\b at offset d: where it ends, -1 if none
DtypeEnd(text, d) ==
    IF LitAt(text, d, KONV) /\ WordBoundary(text, d + 4) THEN d + 4
    ELSE IF LitAt(text, d, DZAEHK) /\ WordBoundary(text, d + 6) THEN d + 6
    ELSE IF LitAt(text, d, DZAEKO) /\ WordBoundary(text, d + 6) THEN d + 6
    ELSE -1

\* \s*(?:TABLE\s+OF\s+|\s+)?(?P<dtype>...)\b from offset t0 (just after
\* TYPE/LIKE): where the match ends, -1 if none
DeclTailEnd(text, t0) ==
    LET a == SkipSpaces(text, t0)
    IN  IF LitAt(text, a, kwTABLE)
        THEN LET b == SkipSpaces(text, a + 5)
             IN  IF b > a + 5 /\ LitAt(text, b, kwOF)
                 THEN LET c == SkipSpaces(text, b + 2)
                      IN  IF c > b + 2 THEN DtypeEnd(text, c) ELSE -1
                 ELSE -1
        ELSE DtypeEnd(text, a)

\* [^.\n]
DeclBodyChar(c) == c # "." /\ c # NL

\* \b(?:TYPE|LIKE)\b at offset t
TypeOrLikeAt(text, t) ==
    /\ WordBoundary(text, t)
    /\ (LitAt(text, t, kwTYPE) \/ LitAt(text, t, kwLIKE))
    /\ WordBoundary(text, t + 4)

\* the offsets t after the keyword end k where TYPE/LIKE and the rest match
DeclTypeOffsets(text, k) ==
    {t \in k..Len(text) :
        /\ \A j \in k..(t - 1) : DeclBodyChar(text[j + 1])
        /\ TypeOrLikeAt(text, t)
        /\ DeclTailEnd(text, t + 4) # -1}

\* The end of the match of DECL_KONV_RE that starts at offset s, -1 if none.
\* The lazy [^.\n]*? takes the earliest TYPE/LIKE offset that leads to a
\* match, which is the one with the least end.
DeclMatchAt(text, s) ==
    IF ~WordBoundary(text, s) \/ DeclKeywordEnd(text, s) = -1 THEN -1
    ELSE MinOr({DeclTailEnd(text, t + 4) :
                   t \in DeclTypeOffsets(text, DeclKeywordEnd(text, s))}, -1)

\* re's search from offset pos: the leftmost offset with a match, -1 if none
DeclSearch(text, pos) ==
    MinOr({s \in pos..Len(text) : DeclMatchAt(text, s) # -1}, -1)

\* the text of group "dtype" of a match ending at offset e
DtypeGroup(text, e) ==
    IF e >= 4 /\ LitAt(text, e - 4, KONV) THEN Slice(text, e - 4, e)
    ELSE Slice(text, e - 6, e)

\* the match object of a match of DECL_KONV_RE over [s, e)
DeclMatch(text, s, e) ==
    [start |-> s, end |-> e, group |-> DtypeGroup(text, e)]

\* DECL_KONV_RE.finditer(text), resumed at offset pos: the matches, in order.
RECURSIVE DeclFinditer(_, _)
DeclFrom(text, s) ==
    IF s = -1 THEN <<>>
    ELSE <<DeclMatch(text, s, DeclMatchAt(text, s))>>
            \o DeclFinditer(text, DeclMatchAt(text, s))

DeclFinditer(text, pos) == DeclFrom(text, DeclSearch(text, pos))

(***************************************************************************)
(* Helpers                                                                 *)
(***************************************************************************)
\* text.rfind("\n", 0, start)
RFindNL(text, start) == MaxOr({i \in 0..(start - 1) : text[i + 1] = NL}, -1)

\* text.find("\n", end)
FindNL(text, end) == MinOr({i \in end..(Len(text) - 1) : text[i + 1] = NL}, -1)

\* fault variant of get_line_snippet: line_start is left on the newline
get_line_snippet_on_newline(text, start, end) ==
    LET line_start == IF RFindNL(text, start) = -1 THEN 0 ELSE RFindNL(text, start)
        line_end == IF FindNL(text, end) = -1 THEN Len(text) ELSE FindNL(text, end)
    IN  Slice(text, line_start, line_end)

\* fault variant of get_line_snippet: the line end is sought from start
get_line_snippet_from_start(text, start, end) ==
    LET line_start == IF RFindNL(text, start) = -1 THEN 0 ELSE RFindNL(text, start) + 1
        line_end == IF FindNL(text, start) = -1 THEN Len(text) ELSE FindNL(text, start)
    IN  Slice(text, line_start, line_end)

get_line_snippet(text, start, end) ==
    LET line_start == IF RFindNL(text, start) = -1 THEN 0 ELSE RFindNL(text, start) + 1
        line_end == IF FindNL(text, end) = -1 THEN Len(text) ELSE FindNL(text, end)
    IN  Slice(text, line_start, line_end)

\* s.replace("\n", "\\n")
RECURSIVE EscapeNL(_)
EscapeNL(s) ==
    IF s = <<>> THEN <<>>
    ELSE (IF Head(s) = NL THEN <<"\\", "n">> ELSE <<Head(s)>>) \o EscapeNL(Tail(s))

\* s.upper()
UpperStr(s) == [i \in 1..Len(s) |-> Upper(s[i])]

\* `x or 0` of an Optional[int]
OrZero(opt) == IF opt = None \/ opt = Some(0) THEN 0 ELSE opt[1]

\* `x or ""` of an Optional[str]
OrEmpty(opt) == IF opt = None THEN <<>> ELSE opt[1]

\* fault variant of make_finding: the line within the block is 0-based
make_finding_zero_based(u, src, match_start, match_end, issues_type, message, suggestion) ==
    LET base_start == OrZero(u.start_line)
        line_in_block == CountNL(Slice(src, 0, match_start))
        snippet_line == get_line_snippet(src, match_start, match_end)
        snippet_line_count == CountNL(snippet_line) + 1
    IN  [prog_name |-> u.pgm_name,
         incl_name |-> u.inc_name,
         types |-> u.type,
         blockname |-> u.name,
         starting_line |-> base_start + line_in_block,
         ending_line |-> base_start + line_in_block + snippet_line_count,
         issues_type |-> issues_type,
         severity |-> "error",
         message |-> message,
         suggestion |-> suggestion,
         snippet |-> EscapeNL(snippet_line)]

make_finding(u, src, match_start, match_end, issues_type, message, suggestion) ==
    LET base_start == OrZero(u.start_line)
        line_in_block == CountNL(Slice(src, 0, match_start)) + 1
        snippet_line == get_line_snippet(src, match_start, match_end)
        snippet_line_count == CountNL(snippet_line) + 1
        starting_line_abs == base_start + line_in_block
        ending_line_abs == base_start + line_in_block + snippet_line_count
    IN  [prog_name |-> u.pgm_name,
         incl_name |-> u.inc_name,
         types |-> u.type,
         blockname |-> u.name,
         starting_line |-> starting_line_abs,
         ending_line |-> ending_line_abs,
         issues_type |-> issues_type,
         severity |-> "error",
         message |-> message,
         suggestion |-> suggestion,
         snippet |-> EscapeNL(snippet_line)]

(***************************************************************************)
(* Core scanning logic                                                     *)
(***************************************************************************)
\* the finding of one match of SQL_KONV_RE
SqlFinding(u, src, m) ==
    LET table == UpperStr(m.group)
        replacement == OBSOLETE_TABLE_MAP(table)
    IN  make_finding(u, src, m.start, m.end, "ObsoleteTableUsage",
            <<table, " table is obsolete in S/4HANA (SAP Note 2220005), replaced by ",
              replacement, ".">>,
            <<"Rewrite the statement using ", replacement,
              " and adjust related logic.">>)

\* the finding of one match of DECL_KONV_RE
DeclFinding(u, src, m) ==
    LET dtype == UpperStr(m.group)
        replacement == OBSOLETE_TYPE_MAP(dtype)
    IN  make_finding(u, src, m.start, m.end, "ObsoleteTypeDeclaration",
            <<dtype, " type is obsolete (SAP Note 2220005), use ", replacement,
              " instead.">>,
            <<"Change the declaration using ", replacement,
              " and adapt the logic accordingly.">>)

\* the findings appended by the loop over the DML matches ms
SqlFindings(u, src, ms) == [i \in 1..Len(ms) |-> SqlFinding(u, src, ms[i])]

\* the findings appended by the loop over the declaration matches ms
DeclFindings(u, src, ms) == [i \in 1..Len(ms) |-> DeclFinding(u, src, ms[i])]

\* the findings list analyze_unit builds from src: DML matches, then
\* declarations
FindingsIn(u, src) ==
    SqlFindings(u, src, SqlFinditer(src, 0)) \o DeclFindings(u, src, DeclFinditer(src, 0))

Findings(u) == FindingsIn(u, OrEmpty(u.code))

\* `findings if findings else None`
OrNone(findings) == IF findings # <<>> THEN Some(findings) ELSE None

\* fault variant of analyze_unit: the findings list is attached as it is,
\* empty or not
analyze_unit_empty_list(u) ==
    [arg |-> u, ret |-> [u EXCEPT !.findings = Some(Findings(u))]]

\* fault variant of analyze_unit: out is the caller's object itself, and the
\* new findings extend the ones it carries
InPlace(out) == [arg |-> out, ret |-> out]
analyze_unit_in_place(u) ==
    InPlace([u EXCEPT !.findings =
                OrNone((IF u.findings = None THEN <<>> ELSE u.findings[1]) \o Findings(u))])

\* A call of analyze_unit on the caller's object u: arg is the caller's
\* object as the call leaves it, ret the returned object.  out is a fresh
\* Unit built from u's dump, so the assignment to out.findings does not
\* reach u.
analyze_unit(u) ==
    [arg |-> u, ret |-> [u EXCEPT !.findings = OrNone(Findings(u))]]

(***************************************************************************)
(* Endpoints                                                               *)
(***************************************************************************)
\* `if x:` of an Optional[List]
Truthy(opt) == opt # None /\ opt[1] # <<>>

\* fault variant of ScanStep: the scanned unit is appended, with or without
\* findings
ScanStepAll(st, call) ==
    [arg |-> Append(st.arg, call.arg), ret |-> Append(st.ret, call.ret)]

\* One pass of the loop of scan_kondition_obsolete_array: call is the call
\* analyze_unit(u); st.arg are the units gone through, st.ret the results.
ScanStep(st, call) ==
    [arg |-> Append(st.arg, call.arg),
     ret |-> IF Truthy(call.ret.findings) THEN Append(st.ret, call.ret) ELSE st.ret]

\* the loop of scan_kondition_obsolete_array over the units still to scan
RECURSIVE ScanLoop(_, _)
ScanLoop(us, st) ==
    IF us = <<>> THEN st
    ELSE ScanLoop(Tail(us), ScanStep(st, analyze_unit(Head(us))))

\* A call of the /remediate-array handler: arg is the parsed list as the
\* handler leaves it, ret the returned list.
scan_kondition_obsolete_array(us) == ScanLoop(us, [arg |-> <<>>, ret |-> <<>>])

\* A call of the /remediate handler.
scan_kondition_obsolete_single(u) == analyze_unit(u)

(***************************************************************************)
(* Requests                                                                *)
(***************************************************************************)
MaxTokens == 4      \* tokens per code text
MaxUnits == 3       \* units per batch
MaxScans == 2       \* times a unit goes through /remediate
BaseLine == 100     \* a non-zero start_line

RECURSIVE Cat(_)
Cat(ts) == IF ts = <<>> THEN <<>> ELSE Head(ts) \o Cat(Tail(ts))

\* the texts made of at most n tokens of pool
Texts(pool, n) == {Cat(ts) : ts \in UNION {[1..k -> pool] : k \in 0..n}}

tUPDATE == <<"U", "P", "D", "A", "T", "E", " ">>
tSELECT == <<"S", "E", "L", "E", "C", "T", " ", "*", " ", "F", "R", "O", "M", " ">>
tDATA == <<"D", "A", "T", "A", " ", "x", " ", "T", "Y", "P", "E", " ">>
tKONV == <<"K", "O", "N", "V">>
tLT == <<"L", "T", "_">>
tNL == <<NL>>

tINSERT == <<"I", "N", "S", "E", "R", "T", " ", "I", "N", "T", "O", " ">>
tDELETE == <<"D", "E", "L", "E", "T", "E", " ", "F", "R", "O", "M", " ">>
tMARA == <<"M", "A", "R", "A", ".", " ">>
tDATAx == <<"D", "A", "T", "A", " ", "x", " ">>
tTYPESt == <<"T", "Y", "P", "E", "S", " ", "t", " ">>
tFS == <<"F", "I", "E", "L", "D", "-", "S", "Y", "M", "B", "O", "L", "S", " ", "<", "f", ">", " ">>
tCONSTc == <<"C", "O", "N", "S", "T", "A", "N", "T", "S", " ", "c", " ">>
tTYPE == <<"T", "Y", "P", "E", " ">>
tLikeTab == <<"l", "i", "k", "e", " ", "t", "a", "b", "l", "e", " ", "o", "f", " ">>
tdzaehk == <<"d", "z", "a", "e", "h", "k">>
tDZAEKO == <<"D", "Z", "A", "E", "K", "O">>

\* statements and identifiers on one or several lines
GeneralPool == {tUPDATE, tDATA, tKONV, tLT, tNL}
\* DML statements on KONV and on another table, and a declaration
DmlPool == {tUPDATE, tSELECT, tINSERT, tDELETE, tKONV, tMARA, tDATA}
\* declarations of the four kinds, typed with TYPE or LIKE TABLE OF
DeclPool == {tDATAx, tTYPESt, tFS, tCONSTc, tTYPE, tLikeTab, tKONV, tdzaehk, tDZAEKO, tNL}

\* a finding left on a unit by an earlier scan of other code
StaleFinding ==
    [prog_name |-> "ZPROG", incl_name |-> "ZINCL", types |-> "FORM",
     blockname |-> Some("F1"), starting_line |-> 1, ending_line |-> 2,
     issues_type |-> "ObsoleteTableUsage", severity |-> "error",
     message |-> <<"old">>, suggestion |-> <<"old">>, snippet |-> <<"o", "l", "d">>]

\* A Unit as pydantic parses it.  end_line is the line of the code's last
\* line when start_line is the line of its first.
MkUnit(name, start_line, code, findings) ==
    [pgm_name |-> "ZPROG", inc_name |-> "ZINCL", type |-> "FORM",
     name |-> Some(name),
     start_line |-> start_line,
     end_line |-> IF start_line = None THEN None
                  ELSE Some(start_line[1] + CountNL(OrEmpty(code))),
     code |-> code,
     findings |-> findings]

\* the (start_line, findings) a posted unit carries: the defaults and nulls
\* of the optional fields, and findings left by an earlier scan
Profiles ==
    {<<None, None>>, <<Some(0), None>>, <<Some(BaseLine), None>>,
     <<Some(BaseLine), Some(<<>>)>>, <<Some(BaseLine), Some(<<StaleFinding>>)>>}

\* the profile of a unit posted with accurate lines and no findings
PlainProfiles == {<<Some(BaseLine), None>>}

SingleUnits(pool, profiles) ==
    {MkUnit("F1", p[1], Some(c), p[2]) : p \in profiles, c \in Texts(pool, MaxTokens)}
    \cup {MkUnit("F1", Some(BaseLine), None, None)}

BatchPool ==
    {MkUnit("A", Some(BaseLine), Some(Cat(<<tUPDATE, tKONV>>)), None),
     MkUnit("B", Some(BaseLine), Some(Cat(<<tUPDATE, tLT, tKONV>>)), None),
     MkUnit("C", Some(0), Some(Cat(<<tNL, tDATA, tKONV>>)), Some(<<>>)),
     MkUnit("D", None, Some(<<>>), Some(<<StaleFinding>>)),
     MkUnit("E", Some(0), None, None)}

Batches == UNION {[1..k -> BatchPool] : k \in 0..MaxUnits}

(***************************************************************************)
(* The service                                                             *)
(***************************************************************************)
InitWith(pool, profiles) ==
    /\ \/ endpoint = "/remediate" /\ body \in SingleUnits(pool, profiles)
       \/ endpoint = "/remediate-array" /\ body \in Batches
    /\ unit = None
    /\ response = None
    /\ units = None
    /\ results = None
    /\ scans = 0

\* POST /remediate
ScanSingle ==
    /\ endpoint = "/remediate"
    /\ response = None
    /\ \E call \in {scan_kondition_obsolete_single(body)} :
          /\ unit' = Some(call.arg)
          /\ response' = Some(call.ret)
    /\ scans' = scans + 1
    /\ UNCHANGED <<endpoint, body, units, results>>

\* The client posts the unit it got back to /remediate again.
Rescan ==
    /\ endpoint = "/remediate"
    /\ response # None
    /\ scans < MaxScans
    /\ body' = response[1]
    /\ \E call \in {scan_kondition_obsolete_single(response[1])} :
          /\ unit' = Some(call.arg)
          /\ response' = Some(call.ret)
    /\ scans' = scans + 1
    /\ UNCHANGED <<endpoint, units, results>>

\* POST /remediate-array
ScanArray ==
    /\ endpoint = "/remediate-array"
    /\ results = None
    /\ \E call \in {scan_kondition_obsolete_array(body)} :
          /\ units' = Some(call.arg)
          /\ results' = Some(call.ret)
    /\ UNCHANGED <<endpoint, body, unit, response, scans>>

Next == ScanSingle \/ Rescan \/ ScanArray

Init == InitWith(GeneralPool, Profiles)

Spec == Init /\ [][Next]_vars

\* the service scanning DML statements
InitDml == InitWith(DmlPool, PlainProfiles)
SpecDml == InitDml /\ [][Next]_vars

\* the service scanning declarations
InitDecl == InitWith(DeclPool, PlainProfiles)
SpecDecl == InitDecl /\ [][Next]_vars

(***************************************************************************)
(* Properties                                                              *)
(***************************************************************************)
\* /remediate has answered
Replied == endpoint = "/remediate" /\ response # None
\* /remediate-array has answered
BatchReplied == endpoint = "/remediate-array" /\ results # None

\* the scanned text of a unit
SrcOf(u) == OrEmpty(u.code)
\* the match spans behind a unit's findings, in the order of the findings
MatchSpans(u) == SqlFinditer(SrcOf(u), 0) \o DeclFinditer(SrcOf(u), 0)
\* the findings list of a unit, empty when the field is None
FindingsOf(u) == IF u.findings = None THEN <<>> ELSE u.findings[1]
\* the j-th smallest element of a set of integers
Nth(S, j) == CHOOSE x \in S : Cardinality({y \in S : y < x}) = j - 1
\* the number of newlines before offset off
NewlinesBefore(src, off) == Cardinality({i \in 1..off : src[i] = NL})

\* C1: the batch scan returns exactly the units whose scan produced a
\* finding, in input order, each as analyze_unit returns it for that unit
\* alone; units without findings are absent, none is duplicated or reordered.
C1_BatchFilter ==
    BatchReplied =>
        LET hits == {i \in 1..Len(body) : MatchSpans(body[i]) # <<>>}
            rs == results[1]
        IN  /\ Len(rs) = Cardinality(hits)
            /\ \A j \in 1..Len(rs) :
                  /\ rs[j] = analyze_unit(body[Nth(hits, j)]).ret
                  /\ Truthy(rs[j].findings)

\* a batch of three units of which only the second has a match
C1_Witness ==
    /\ BatchReplied
    /\ Len(body) = 3
    /\ MatchSpans(body[1]) = <<>>
    /\ MatchSpans(body[2]) # <<>>
    /\ MatchSpans(body[3]) = <<>>
    /\ Len(results[1]) = 1
    /\ results[1][1].name = body[2].name

\* C2: the single scan returns the posted unit with only its findings
\* field replaced; the findings are None or a non-empty list, never an empty
\* list, and None exactly when neither matcher matched the code, also when
\* the posted unit carried findings.
C2_AbsenceEncoding ==
    Replied =>
        LET out == response[1]
        IN  /\ [out EXCEPT !.findings = body.findings] = body
            /\ out.findings # Some(<<>>)
            /\ (out.findings = None) <=> (MatchSpans(body) = <<>>)
            /\ out.findings # None => Len(out.findings[1]) = Len(MatchSpans(body))

\* a unit posted with findings attached comes back with none
C2_Witness ==
    /\ Replied
    /\ scans = 1
    /\ Truthy(body.findings)
    /\ response[1].findings = None

\* C3: every finding's starting_line is the unit's start_line (0 when
\* absent or null) plus the newlines before the match start plus 1; with
\* start_line = BaseLine a match beginning on the 3rd line reports BaseLine + 3.
C3_StartingLine ==
    Replied =>
        LET fs == FindingsOf(response[1])
            ms == MatchSpans(body)
            base == IF body.start_line = None THEN 0 ELSE body.start_line[1]
        IN  \A i \in 1..Len(fs) :
               /\ fs[i].starting_line
                     = base + NewlinesBefore(SrcOf(body), ms[i].start) + 1
               /\ (body.start_line = Some(BaseLine)
                      /\ NewlinesBefore(SrcOf(body), ms[i].start) = 2)
                     => fs[i].starting_line = BaseLine + 3

\* a unit with start_line = BaseLine and a match on the 3rd line of its code
C3_Witness ==
    /\ Replied
    /\ body.start_line = Some(BaseLine)
    /\ \E i \in 1..Len(FindingsOf(response[1])) :
          /\ NewlinesBefore(SrcOf(body), MatchSpans(body)[i].start) = 2
          /\ FindingsOf(response[1])[i].starting_line = BaseLine + 3

\* C4: for a unit whose start_line is the file line of its code's first
\* line and whose end_line is the line of its last, every finding has
\* start_line <= starting_line <= ending_line <= end_line + 1.
C4_WithinRange ==
    (Replied /\ body.start_line = Some(BaseLine)) =>
        \A i \in 1..Len(FindingsOf(response[1])) :
            LET f == FindingsOf(response[1])[i]
            IN  /\ body.start_line[1] <= f.starting_line
                /\ f.starting_line <= f.ending_line
                /\ f.ending_line <= body.end_line[1] + 1

\* the maximal newline-free stretch of src around the span [a, b)
LineAround(src, a, b) ==
    LET lo == Min({p \in 0..a : \A j \in p..(a - 1) : src[j + 1] # NL})
        hi == Max({p \in b..Len(src) : \A j \in b..(p - 1) : src[j + 1] # NL})
    IN  Slice(src, lo, hi)

\* C5: for every finding whose match span lies within one line, the snippet
\* holds no newline and is the whole line of code around the match, from
\* after the preceding newline (or text start) to before the following
\* newline (or text end).
C5_SnippetIsLine ==
    Replied =>
        LET fs == FindingsOf(response[1])
            ms == MatchSpans(body)
            src == SrcOf(body)
        IN  \A i \in 1..Len(fs) :
               CountNL(Slice(src, ms[i].start, ms[i].end)) = 0 =>
                  /\ \A j \in 1..Len(fs[i].snippet) : fs[i].snippet[j] # NL
                  /\ fs[i].snippet = LineAround(src, ms[i].start, ms[i].end)

\* a one-line match that starts at the first character of a line and ends
\* at the last character before a newline, and one with text around it
C5_Witness ==
    /\ Replied
    /\ LET ms == MatchSpans(body)
           src == SrcOf(body)
       IN  \E i \in 1..Len(ms) :
              /\ CountNL(Slice(src, ms[i].start, ms[i].end)) = 0
              /\ ms[i].start > 0
              /\ src[ms[i].start] = NL
              /\ ms[i].end < Len(src)
              /\ src[ms[i].end + 1] = NL
              /\ FindingsOf(response[1])[i].snippet = Slice(src, ms[i].start, ms[i].end)

\* an obsolete identifier standing at offset q of src as a whole word
WholeWordAt(src, q, id) ==
    /\ LitAt(src, q, id)
    /\ (q = 0 \/ ~IsWord(src[q]))
    /\ (q + Len(id) = Len(src) \/ ~IsWord(src[q + Len(id) + 1]))

HasWholeWord(src) ==
    \E q \in 0..Len(src) : \E id \in {KONV, DZAEHK, DZAEKO} : WholeWordAt(src, q, id)

\* C8: code in which KONV (or DZAEHK, DZAEKO) occurs only inside longer
\* words (KONVLT_, LT_KONV) yields no finding from either matcher; every
\* finding's match ends in the obsolete identifier standing as a whole word.
C8_WordBoundary ==
    Replied =>
        LET src == SrcOf(body)
            ms == MatchSpans(body)
        IN  /\ ~HasWholeWord(src) => response[1].findings = None
            /\ \A i \in 1..Len(ms) :
                  WholeWordAt(src, ms[i].end - Len(ms[i].group), UpperStr(ms[i].group))

\* an UPDATE and a declaration typed with a longer word that starts with KONV
C8_Witness ==
    /\ Replied
    /\ response[1].findings = None
    /\ LET src == SrcOf(body)
       IN  \E q \in 5..Len(src) :
              /\ LitAt(src, q, KONV)
              /\ LitAt(src, q - 5, kwTYPE)
              /\ \E p \in 0..q : LitAt(src, p, kwUPDATE)
              /\ \E p \in 0..q : LitAt(src, p, kwDATA)

\* C9: a scan leaves the caller's unit as posted, and scanning the unit a
\* scan returned (findings attached) returns that same unit: the earlier
\* findings are replaced, not appended to.
C9_Idempotent ==
    Replied =>
        /\ unit = Some(body)
        /\ analyze_unit(response[1]).ret = response[1]
        /\ scans >= 2 => response[1] = body

\* the rescan of a returned unit that carries findings
C9_Witness ==
    /\ Replied
    /\ scans = 2
    /\ Truthy(body.findings)
    /\ response[1] = body

\* the number of escaped newlines ("\\n") in a snippet
EscapedNewlines(snippet) ==
    Cardinality({j \in 1..(Len(snippet) - 1) : snippet[j] = "\\" /\ snippet[j + 1] = "n"})

\* C10: every finding's ending_line is its starting_line plus the newlines
\* of the unescaped snippet plus 1: above starting_line always, and
\* starting_line + k when the match span covers k lines of the code.
C10_EndingLine ==
    Replied =>
        LET fs == FindingsOf(response[1])
            ms == MatchSpans(body)
            src == SrcOf(body)
        IN  \A i \in 1..Len(fs) :
               LET k == CountNL(Slice(src, ms[i].start, ms[i].end)) + 1
               IN  /\ fs[i].ending_line = fs[i].starting_line + EscapedNewlines(fs[i].snippet) + 1
                   /\ fs[i].ending_line > fs[i].starting_line
                   /\ fs[i].ending_line = fs[i].starting_line + k

\* a match whose span covers three lines, followed by a further line
C10_Witness ==
    /\ Replied
    /\ LET ms == MatchSpans(body)
           src == SrcOf(body)
       IN  \E i \in 1..Len(ms) :
              /\ CountNL(Slice(src, ms[i].start, ms[i].end)) = 2
              /\ FindingsOf(response[1])[i].ending_line
                    = FindingsOf(response[1])[i].starting_line + 3

\* the statements of src: the spans between statement terminators
StatementSpans(src) ==
    {sp \in (0..Len(src)) \X (0..Len(src)) :
        /\ sp[1] <= sp[2]
        /\ (sp[1] = 0 \/ src[sp[1]] = ".")
        /\ (sp[2] = Len(src) \/ src[sp[2] + 1] = ".")
        /\ \A j \in (sp[1] + 1)..sp[2] : src[j] # "."}

\* a statement that holds a DML start and, after it, KONV as a whole word
IsKonvDmlStatement(st) ==
    \E s \in 0..Len(st) : \E g \in DmlStartEnds(st, s) :
        \E q \in g..Len(st) : WholeWordAt(st, q, KONV)

KonvDmlStatements(src) ==
    {sp \in StatementSpans(src) : IsKonvDmlStatement(Slice(src, sp[1], sp[2]))}

\* C6: the number of ObsoleteTableUsage findings of a unit equals the number
\* of DML statements in its code that reference KONV as a whole word, each
\* finding naming PRCD_ELEMENTS.
C6_OnePerStatement ==
    Replied =>
        LET fs == FindingsOf(response[1])
            table == {i \in 1..Len(fs) : fs[i].issues_type = "ObsoleteTableUsage"}
        IN  /\ Cardinality(table) = Cardinality(KonvDmlStatements(SrcOf(body)))
            /\ \A i \in table : fs[i].message[3] = "PRCD_ELEMENTS"

\* the obsolete types a statement declares: it opens with a declaration
\* keyword and holds, after it, TYPE or LIKE (optionally TABLE OF) and the type
DeclaredTypes(st) ==
    LET s == SkipSpaces(st, 0)
    IN  IF DeclKeywordEnd(st, s) = -1 THEN {}
        ELSE {UpperStr(DtypeGroup(st, DeclTailEnd(st, t + 4))) :
                 t \in {t \in DeclKeywordEnd(st, s)..Len(st) :
                           TypeOrLikeAt(st, t) /\ DeclTailEnd(st, t + 4) # -1}}

\* the replacement the advisory names for an obsolete type
ReplacementOf(dtype) ==
    IF dtype = KONV THEN "PRCD_ELEMENTS"
    ELSE IF dtype = DZAEHK THEN "VFPRC_COND_COUNT"
    ELSE "VFPRC_COND_COUNT_HEAD"

\* C7: every declaration opened by DATA, TYPES, FIELD-SYMBOLS or CONSTANTS
\* and typed as KONV, DZAEHK or DZAEKO before its terminator, on one line or
\* several, has an ObsoleteTypeDeclaration finding naming the replacement.
C7_DeclarationFound ==
    Replied =>
        LET fs == FindingsOf(response[1])
            src == SrcOf(body)
        IN  \A sp \in StatementSpans(src) :
               \A d \in DeclaredTypes(Slice(src, sp[1], sp[2])) :
                  \E i \in 1..Len(fs) :
                     /\ fs[i].issues_type = "ObsoleteTypeDeclaration"
                     /\ fs[i].message[1] = d
                     /\ fs[i].message[3] = ReplacementOf(d)
                     /\ fs[i].suggestion[2] = ReplacementOf(d)

====
